---- MODULE Spec2Model ----
(***************************************************************************)
(* Model of api/extensions/ext_storage.py: the process-wide Storage        *)
(* facade, its driver registry (get_storage_factory) and its seven         *)
(* forwarding operations.  The backend drivers and the StorageType enum    *)
(* live in other modules of the repository; they are modelled from the     *)
(* operation contract (the Driver_* and StorageType_* definitions).        *)
(***************************************************************************)
EXTENDS Integers, Sequences, FiniteSets, TLC

----------------------------------------------------------------------------
(* Bounds *)

\* longest payload a caller saves
MaxLen == 2
\* largest chunk a driver's stream yields
MaxChunk == 2
\* how many drivers init_app may construct in one run
MaxInit == 2

\* the file handles callers use (the facade keeps no per-key state)
Keys == {"a"}
Paths == {"p"}
Causes == {"c1", "c2"}

\* the payloads callers save: one per length, bytes alternating 0 1 0 ...
\* (the facade never inspects a payload's bytes)
Payloads == {[i \in 1..n |-> (i - 1) % 2] : n \in 0..MaxLen}

Min(x, y) == IF x < y THEN x ELSE y

----------------------------------------------------------------------------
(* StorageType members (extensions/storage/storage_type.py) *)

StorageType_S3 == "s3"
StorageType_AZURE_BLOB == "azure-blob"
StorageType_ALIYUN_OSS == "oss"
StorageType_GOOGLE_STORAGE == "gcs"
StorageType_TENCENT_COS == "cos"
StorageType_OCI_STORAGE == "oci"
StorageType_HUAWEI_OBS == "obs"
StorageType_BAIDU_OBS == "baidu-obs"
StorageType_VOLCENGINE_TOS == "volcengine-tos"
StorageType_SUPBASE == "supabase"
StorageType_LOCAL == "local"

\* an absent configuration value (Python None)
AbsentId == "<None>"

Identifiers ==
    { StorageType_S3, StorageType_AZURE_BLOB, StorageType_ALIYUN_OSS,
      StorageType_GOOGLE_STORAGE, StorageType_TENCENT_COS, StorageType_OCI_STORAGE,
      StorageType_HUAWEI_OBS, StorageType_BAIDU_OBS, StorageType_VOLCENGINE_TOS,
      StorageType_SUPBASE, StorageType_LOCAL, "bogus-name", "", AbsentId }

\* the values dify_config.STORAGE_TYPE has in the runs of Spec (SpecRegistry
\* runs every identifier)
ConfiguredTypes == { StorageType_S3, "bogus-name" }

\* what a resolution that fails would produce
NoFactory == "<no factory>"

\* mutant: the match has no wildcard alternative, unknown tags fall through
get_storage_factory_no_default(storage_type) ==
    CASE storage_type = StorageType_S3 -> "AwsS3Storage"
      [] storage_type = StorageType_AZURE_BLOB -> "AzureBlobStorage"
      [] storage_type = StorageType_ALIYUN_OSS -> "AliyunOssStorage"
      [] storage_type = StorageType_GOOGLE_STORAGE -> "GoogleCloudStorage"
      [] storage_type = StorageType_TENCENT_COS -> "TencentCosStorage"
      [] storage_type = StorageType_OCI_STORAGE -> "OracleOCIStorage"
      [] storage_type = StorageType_HUAWEI_OBS -> "HuaweiObsStorage"
      [] storage_type = StorageType_BAIDU_OBS -> "BaiduObsStorage"
      [] storage_type = StorageType_VOLCENGINE_TOS -> "VolcengineTosStorage"
      [] storage_type = StorageType_SUPBASE -> "SupabaseStorage"
      [] storage_type = StorageType_LOCAL -> "LocalFsStorage"
      [] OTHER -> NoFactory

get_storage_factory(storage_type) ==
    CASE storage_type = StorageType_S3 -> "AwsS3Storage"
      [] storage_type = StorageType_AZURE_BLOB -> "AzureBlobStorage"
      [] storage_type = StorageType_ALIYUN_OSS -> "AliyunOssStorage"
      [] storage_type = StorageType_GOOGLE_STORAGE -> "GoogleCloudStorage"
      [] storage_type = StorageType_TENCENT_COS -> "TencentCosStorage"
      [] storage_type = StorageType_OCI_STORAGE -> "OracleOCIStorage"
      [] storage_type = StorageType_HUAWEI_OBS -> "HuaweiObsStorage"
      [] storage_type = StorageType_BAIDU_OBS -> "BaiduObsStorage"
      [] storage_type = StorageType_VOLCENGINE_TOS -> "VolcengineTosStorage"
      [] storage_type = StorageType_SUPBASE -> "SupabaseStorage"
      [] OTHER -> "LocalFsStorage"

----------------------------------------------------------------------------
(* Values, exceptions and the storage medium *)

NoExc == [kind |-> "none", cause |-> "none"]
Exc(kind, cause) == [kind |-> kind, cause |-> cause]
NotFound == Exc("NotFound", "key absent")
AttributeError == Exc("AttributeError", "NoneType")
DriverKinds == {"NotFound", "TransportError", "LocalIOError"}

NoneV == [t |-> "None", bytes |-> <<>>, bool |-> FALSE]
BytesV(b) == [t |-> "bytes", bytes |-> b, bool |-> FALSE]
BoolV(f) == [t |-> "bool", bytes |-> <<>>, bool |-> f]
GenV == [t |-> "generator", bytes |-> <<>>, bool |-> FALSE]
\* the end of a chunk sequence (StopIteration)
StopV == [t |-> "StopIteration", bytes |-> <<>>, bool |-> FALSE]
FactoryV(c) == [t |-> c, bytes |-> <<>>, bool |-> FALSE]

Absent == [present |-> FALSE, data |-> <<>>]
Present(b) == [present |-> TRUE, data |-> b]

\* storage_runner before init_app
None == [id |-> 0, cls |-> "None"]

----------------------------------------------------------------------------
(* Backend driver: the operation contract every driver implements.         *)
(* A world w is the medium the driver talks to: w.store maps keys to       *)
(* content, w.localfs maps local destination paths to content.  Each       *)
(* Driver_* operator is the set of responses a call may produce.           *)

DRet(v, w) == [outcome |-> "return", value |-> v, exc |-> NoExc, w |-> w]
DRaise(e, w) == [outcome |-> "raise", value |-> NoneV, exc |-> e, w |-> w]

\* transport/auth/medium failure; the effect may or may not have been applied
TransportFailures(worlds) ==
    { DRaise(Exc("TransportError", c), w) : c \in Causes, w \in worlds }

Driver_save(w, key, data) ==
    LET done == [w EXCEPT !.store[key] = Present(data)]
    IN  {DRet(NoneV, done)} \cup TransportFailures({w, done})

Driver_load_once(w, key) ==
    (IF w.store[key].present
        THEN {DRet(BytesV(w.store[key].data), w)}
        ELSE {DRaise(NotFound, w)})
    \cup TransportFailures({w})

\* a driver either checks the key in the call or defers every read to the
\* iteration of the sequence it returns
Driver_load_stream(w, key) ==
    {DRet(GenV, w)}
    \cup (IF w.store[key].present THEN {} ELSE {DRaise(NotFound, w)})
    \cup TransportFailures({w})

Driver_download(w, key, path) ==
    (IF w.store[key].present
        THEN { DRet(NoneV, [w EXCEPT !.localfs[path] = Present(w.store[key].data)]),
               DRaise(Exc("LocalIOError", "destination unwritable"), w) }
        ELSE {DRaise(NotFound, w)})
    \cup TransportFailures({w})

Driver_exists(w, key) ==
    {DRet(BoolV(w.store[key].present), w)} \cup TransportFailures({w})

Driver_delete(w, key) ==
    LET done == [w EXCEPT !.store[key] = Absent]
    IN  {DRet(NoneV, done)} \cup TransportFailures({w, done})

\* one step of the sequence returned by load_stream, read from position pos:
\* the next chunk, the end of the sequence, or a failure
Driver_next(w, key, pos) ==
    (IF ~w.store[key].present
        THEN {DRaise(NotFound, w)}
        ELSE IF pos >= Len(w.store[key].data)
            THEN {DRet(StopV, w)}
            ELSE { DRet(BytesV(SubSeq(w.store[key].data, pos + 1, pos + n)), w) :
                     n \in 1..Min(MaxChunk, Len(w.store[key].data) - pos) })
    \cup TransportFailures({w})

----------------------------------------------------------------------------
(* Storage facade operations.  Each is the set of results the method may   *)
(* produce for the caller: outcome/value/exc as seen by the caller, logs   *)
(* the logging.exception records emitted, calls the driver methods         *)
(* invoked (with the failure each raised), w the medium afterwards.        *)

Call(runner, op, key, d) == [drv |-> runner.id, op |-> op, key |-> key, exc |-> d.exc]
Log(op, e) == [op |-> op, exc |-> e]

Returned(v, calls, w) ==
    [outcome |-> "return", value |-> v, exc |-> NoExc, logs |-> <<>>, calls |-> calls, w |-> w]
\* except Exception as e: logging.exception(...); raise e
Raised(op, e, calls, w) ==
    [outcome |-> "raise", value |-> NoneV, exc |-> e, logs |-> <<Log(op, e)>>,
     calls |-> calls, w |-> w]

\* mutant: the payload handed to the driver loses its last byte
save_truncating(runner, w, filename, data) ==
    IF runner = None
    THEN {Raised("save", AttributeError, <<>>, w)}
    ELSE { IF d.outcome = "raise"
              THEN Raised("save", d.exc, <<Call(runner, "save", filename, d)>>, d.w)
              ELSE Returned(NoneV, <<Call(runner, "save", filename, d)>>, d.w) :
           d \in Driver_save(w, filename,
                             IF data = <<>> THEN data ELSE SubSeq(data, 1, Len(data) - 1)) }

save(runner, w, filename, data) ==
    IF runner = None
    THEN {Raised("save", AttributeError, <<>>, w)}
    ELSE { IF d.outcome = "raise"
              THEN Raised("save", d.exc, <<Call(runner, "save", filename, d)>>, d.w)
              ELSE Returned(NoneV, <<Call(runner, "save", filename, d)>>, d.w) :
           d \in Driver_save(w, filename, data) }

\* mutant: a failure is reported under a generic cause
load_once_reclassifying(runner, w, filename) ==
    IF runner = None
    THEN {Raised("load_once", AttributeError, <<>>, w)}
    ELSE { IF d.outcome = "raise"
              THEN Raised("load_once", Exc("StorageError", "generic"),
                          <<Call(runner, "load_once", filename, d)>>, d.w)
              ELSE Returned(d.value, <<Call(runner, "load_once", filename, d)>>, d.w) :
           d \in Driver_load_once(w, filename) }

load_once(runner, w, filename) ==
    IF runner = None
    THEN {Raised("load_once", AttributeError, <<>>, w)}
    ELSE { IF d.outcome = "raise"
              THEN Raised("load_once", d.exc, <<Call(runner, "load_once", filename, d)>>, d.w)
              ELSE Returned(d.value, <<Call(runner, "load_once", filename, d)>>, d.w) :
           d \in Driver_load_once(w, filename) }

load_stream(runner, w, filename) ==
    IF runner = None
    THEN {Raised("load_stream", AttributeError, <<>>, w)}
    ELSE { IF d.outcome = "raise"
              THEN Raised("load_stream", d.exc, <<Call(runner, "load_stream", filename, d)>>, d.w)
              ELSE Returned(d.value, <<Call(runner, "load_stream", filename, d)>>, d.w) :
           d \in Driver_load_stream(w, filename) }

\* mutant: the two branches of the mode flag are swapped
load_swapped(runner, w, filename, stream) ==
    { IF r.outcome = "raise"
         THEN [r EXCEPT !.logs = Append(@, Log("load", r.exc))]
         ELSE r :
      r \in IF stream THEN load_once(runner, w, filename)
                      ELSE load_stream(runner, w, filename) }

\* the inner method's failure is caught, logged again and raised again
load(runner, w, filename, stream) ==
    { IF r.outcome = "raise"
         THEN [r EXCEPT !.logs = Append(@, Log("load", r.exc))]
         ELSE r :
      r \in IF stream THEN load_stream(runner, w, filename)
                      ELSE load_once(runner, w, filename) }

download(runner, w, filename, target_filepath) ==
    IF runner = None
    THEN {Raised("download", AttributeError, <<>>, w)}
    ELSE { IF d.outcome = "raise"
              THEN Raised("download", d.exc, <<Call(runner, "download", filename, d)>>, d.w)
              ELSE Returned(NoneV, <<Call(runner, "download", filename, d)>>, d.w) :
           d \in Driver_download(w, filename, target_filepath) }

\* mutant: a failed existence check is reported as "not there"
exists_swallowing(runner, w, filename) ==
    IF runner = None
    THEN {Raised("exists", AttributeError, <<>>, w)}
    ELSE { IF d.outcome = "raise"
              THEN Returned(BoolV(FALSE), <<Call(runner, "exists", filename, d)>>, d.w)
              ELSE Returned(d.value, <<Call(runner, "exists", filename, d)>>, d.w) :
           d \in Driver_exists(w, filename) }

exists(runner, w, filename) ==
    IF runner = None
    THEN {Raised("exists", AttributeError, <<>>, w)}
    ELSE { IF d.outcome = "raise"
              THEN Raised("exists", d.exc, <<Call(runner, "exists", filename, d)>>, d.w)
              ELSE Returned(d.value, <<Call(runner, "exists", filename, d)>>, d.w) :
           d \in Driver_exists(w, filename) }

\* mutant: a missing driver is treated as "nothing to delete"
delete_guarded(runner, w, filename) ==
    IF runner = None
    THEN {Returned(NoneV, <<>>, w)}
    ELSE { IF d.outcome = "raise"
              THEN Raised("delete", d.exc, <<Call(runner, "delete", filename, d)>>, d.w)
              ELSE Returned(d.value, <<Call(runner, "delete", filename, d)>>, d.w) :
           d \in Driver_delete(w, filename) }

\* mutant: the call returns without reaching the driver
delete_not_forwarding(runner, w, filename) ==
    IF runner = None
    THEN {Raised("delete", AttributeError, <<>>, w)}
    ELSE {Returned(NoneV, <<[drv |-> runner.id, op |-> "delete", key |-> filename,
                             exc |-> NoExc]>>, w)}

delete(runner, w, filename) ==
    IF runner = None
    THEN {Raised("delete", AttributeError, <<>>, w)}
    ELSE { IF d.outcome = "raise"
              THEN Raised("delete", d.exc, <<Call(runner, "delete", filename, d)>>, d.w)
              ELSE Returned(d.value, <<Call(runner, "delete", filename, d)>>, d.w) :
           d \in Driver_delete(w, filename) }

----------------------------------------------------------------------------
(* State *)

VARIABLES
    STORAGE_TYPE,     \* dify_config.STORAGE_TYPE, fixed for the process
    storage_runner,   \* Storage.storage_runner: None or the retained driver
    nConstructed,     \* how many driver instances have been constructed
    world,            \* the storage medium and the local filesystem
    gen,              \* the chunk sequence the caller holds from its last streaming load
    last,             \* the most recent call as its caller saw it
    logs,             \* what that call logged
    calls,            \* the driver methods that call invoked
    hist              \* per key: the last save/delete made through the facade

vars == <<STORAGE_TYPE, storage_runner, nConstructed, world, gen, last, logs, calls, hist>>

FacadeOps == {"save", "load", "load_once", "load_stream", "download", "exists", "delete"}

NoGen == [status |-> "none", key |-> "", pos |-> 0, chunks |-> <<>>, clean |-> FALSE]
NewGen(k) == [status |-> "open", key |-> k, pos |-> 0, chunks |-> <<>>, clean |-> TRUE]

Seen(op, key, stream, r) ==
    [op |-> op, key |-> key, stream |-> stream, outcome |-> r.outcome,
     value |-> r.value, exc |-> r.exc]

\* hist after a save or delete of key k whose result is r
Recorded(k, op, data, r) ==
    [hist EXCEPT ![k] = IF r.calls = <<>> THEN @
                        ELSE IF r.outcome = "return" THEN [op |-> op, data |-> data]
                        ELSE [op |-> "unknown", data |-> <<>>]]

\* the held chunk sequence after a save or delete of key k reached the driver
Touched(k, r) ==
    IF gen.key = k /\ r.calls # <<>> THEN [gen EXCEPT !.clean = FALSE] ELSE gen

\* the held chunk sequence after a load that may have returned a new one
Held(k, r) ==
    IF r.outcome = "return" /\ r.value = GenV THEN NewGen(k) ELSE gen

\* the caller's view and the medium after a facade call with result r
Observe(op, key, stream, r) ==
    /\ last' = Seen(op, key, stream, r)
    /\ logs' = r.logs
    /\ calls' = r.calls
    /\ world' = r.w

\* Storage.__init__ at module import: storage = Storage()
Constructed ==
    /\ storage_runner = None
    /\ nConstructed = 0
    /\ world = [store |-> [k \in Keys |-> Absent], localfs |-> [p \in Paths |-> Absent]]
    /\ gen = NoGen
    /\ last = [op |-> "__init__", key |-> "", stream |-> FALSE, outcome |-> "return",
               value |-> NoneV, exc |-> NoExc]
    /\ logs = <<>>
    /\ calls = <<>>
    /\ hist = [k \in Keys |-> [op |-> "none", data |-> <<>>]]

Init ==
    /\ STORAGE_TYPE \in ConfiguredTypes
    /\ Constructed

\* init_app: resolve the factory, construct the driver, retain it; a
\* constructor that raises leaves storage_runner as it was
InitApp ==
    /\ nConstructed < MaxInit
    /\ LET storage_factory == get_storage_factory(STORAGE_TYPE)
       IN  \/ /\ storage_factory # NoFactory
              /\ storage_runner' = [id |-> nConstructed + 1, cls |-> storage_factory]
              /\ nConstructed' = nConstructed + 1
              /\ last' = [op |-> "init_app", key |-> STORAGE_TYPE, stream |-> FALSE,
                          outcome |-> "return", value |-> NoneV, exc |-> NoExc]
           \/ /\ last' = [op |-> "init_app", key |-> STORAGE_TYPE, stream |-> FALSE,
                          outcome |-> "raise", value |-> NoneV,
                          exc |-> Exc("ConfigurationError", "driver setup")]
              /\ UNCHANGED <<storage_runner, nConstructed>>
    /\ logs' = <<>>
    /\ calls' = <<>>
    /\ UNCHANGED <<STORAGE_TYPE, world, gen, hist>>

\* a direct call of the static method
GetStorageFactory ==
    /\ \E id \in Identifiers :
          last' = [op |-> "get_storage_factory", key |-> id, stream |-> FALSE,
                   outcome |-> IF get_storage_factory(id) = NoFactory THEN "raise" ELSE "return",
                   value |-> FactoryV(get_storage_factory(id)), exc |-> NoExc]
    /\ logs' = <<>>
    /\ calls' = <<>>
    /\ UNCHANGED <<STORAGE_TYPE, storage_runner, nConstructed, world, gen, hist>>

Save ==
    \E k \in Keys, data \in Payloads :
      \E r \in save(storage_runner, world, k, data) :
        /\ Observe("save", k, FALSE, r)
        /\ hist' = Recorded(k, "save", data, r)
        /\ gen' = Touched(k, r)
        /\ UNCHANGED <<STORAGE_TYPE, storage_runner, nConstructed>>

Load ==
    \E k \in Keys, stream \in BOOLEAN :
      \E r \in load(storage_runner, world, k, stream) :
        /\ Observe("load", k, stream, r)
        /\ gen' = Held(k, r)
        /\ UNCHANGED <<STORAGE_TYPE, storage_runner, nConstructed, hist>>

LoadOnce ==
    \E k \in Keys :
      \E r \in load_once(storage_runner, world, k) :
        /\ Observe("load_once", k, FALSE, r)
        /\ UNCHANGED <<STORAGE_TYPE, storage_runner, nConstructed, gen, hist>>

LoadStream ==
    \E k \in Keys :
      \E r \in load_stream(storage_runner, world, k) :
        /\ Observe("load_stream", k, TRUE, r)
        /\ gen' = Held(k, r)
        /\ UNCHANGED <<STORAGE_TYPE, storage_runner, nConstructed, hist>>

\* mutant: the driver is constructed again on every call
Download_reconstructing ==
    /\ nConstructed < MaxInit
    /\ \E k \in Keys, p \in Paths :
         \E r \in download(storage_runner, world, k, p) :
           /\ Observe("download", k, FALSE, r)
           /\ storage_runner' = [id |-> nConstructed + 1,
                                 cls |-> get_storage_factory(STORAGE_TYPE)]
           /\ nConstructed' = nConstructed + 1
           /\ UNCHANGED <<STORAGE_TYPE, gen, hist>>

Download ==
    \E k \in Keys, p \in Paths :
      \E r \in download(storage_runner, world, k, p) :
        /\ Observe("download", k, FALSE, r)
        /\ UNCHANGED <<STORAGE_TYPE, storage_runner, nConstructed, gen, hist>>

Exists ==
    \E k \in Keys :
      \E r \in exists(storage_runner, world, k) :
        /\ Observe("exists", k, FALSE, r)
        /\ UNCHANGED <<STORAGE_TYPE, storage_runner, nConstructed, gen, hist>>

Delete ==
    \E k \in Keys :
      \E r \in delete(storage_runner, world, k) :
        /\ Observe("delete", k, FALSE, r)
        /\ hist' = Recorded(k, "delete", <<>>, r)
        /\ gen' = Touched(k, r)
        /\ UNCHANGED <<STORAGE_TYPE, storage_runner, nConstructed>>

\* the caller asks the held chunk sequence for its next chunk; the facade is
\* not on the call stack
StreamNext ==
    /\ gen.status = "open"
    /\ \E d \in Driver_next(world, gen.key, gen.pos) :
         /\ last' = [op |-> "next", key |-> gen.key, stream |-> TRUE,
                     outcome |-> d.outcome, value |-> d.value, exc |-> d.exc]
         /\ gen' = IF d.outcome = "raise" THEN [gen EXCEPT !.status = "raised"]
                   ELSE IF d.value = StopV THEN [gen EXCEPT !.status = "done"]
                   ELSE [gen EXCEPT !.chunks = Append(@, d.value.bytes),
                                    !.pos = @ + Len(d.value.bytes)]
         /\ world' = d.w
    /\ logs' = <<>>
    /\ calls' = <<>>
    /\ UNCHANGED <<STORAGE_TYPE, storage_runner, nConstructed, hist>>

Next ==
    \/ InitApp
    \/ Save
    \/ Load
    \/ LoadOnce
    \/ LoadStream
    \/ Download
    \/ Exists
    \/ Delete
    \/ StreamNext

Spec == Init /\ [][Next]_vars

\* the registry alone: every identifier as the configured one, resolved by
\* init_app and by direct calls of get_storage_factory
InitRegistry ==
    /\ STORAGE_TYPE \in Identifiers
    /\ Constructed

NextRegistry ==
    \/ InitApp
    \/ GetStorageFactory

SpecRegistry == InitRegistry /\ [][NextRegistry]_vars

----------------------------------------------------------------------------
(* Properties *)

RECURSIVE Concat(_)
\* the chunks of a sequence joined in the order they were yielded
Concat(chunks) ==
    IF chunks = <<>> THEN <<>> ELSE Head(chunks) \o Concat(Tail(chunks))

IsPrefix(p, q) == Len(p) <= Len(q) /\ SubSeq(q, 1, Len(p)) = p

Recognized ==
    { StorageType_S3, StorageType_AZURE_BLOB, StorageType_ALIYUN_OSS,
      StorageType_GOOGLE_STORAGE, StorageType_TENCENT_COS, StorageType_OCI_STORAGE,
      StorageType_HUAWEI_OBS, StorageType_BAIDU_OBS, StorageType_VOLCENGINE_TOS,
      StorageType_SUPBASE }

Initialized == storage_runner # None

\* C1: across any sequence of init_app calls and facade operations at most
\* one driver is ever constructed, and a retained driver is never replaced.
C1_SingleDriverNeverReplaced ==
    [][ /\ nConstructed' <= 1
        /\ (storage_runner # None => storage_runner' = storage_runner) ]_vars

\* C2: get_storage_factory returns a constructor for every identifier and
\* never fails; 'local' and every unrecognized or absent identifier give the
\* local-filesystem constructor, 's3' gives the S3 constructor, and a
\* recognized identifier gives a constructor of its own (not the local one,
\* and not the one of a different recognized identifier).
C2_ResolveTotal ==
    /\ last.op = "get_storage_factory" =>
          /\ last.outcome = "return"
          /\ last.value.t # NoFactory
          /\ (last.key \notin Recognized => last.value.t = "LocalFsStorage")
          /\ (last.key \in Recognized => last.value.t # "LocalFsStorage")
          /\ (last.key = "s3" => last.value.t = "AwsS3Storage")
          /\ (Initialized /\ last.key \in Recognized /\ STORAGE_TYPE \in Recognized =>
                 (last.value.t = storage_runner.cls <=> last.key = STORAGE_TYPE))
    /\ Initialized =>
          /\ storage_runner.cls # NoFactory
          /\ (STORAGE_TYPE \notin Recognized <=> storage_runner.cls = "LocalFsStorage")

C2_Witness ==
    /\ last.op = "get_storage_factory"
    /\ last.key = AbsentId
    /\ last.value.t = "LocalFsStorage"
    /\ STORAGE_TYPE = "s3"
    /\ storage_runner.cls = "AwsS3Storage"

\* C3: whenever the driver's operation raises in service of one of the seven
\* facade operations, the facade call raises that same failure (same kind,
\* same cause) and does not return.
C3_FailureReRaised ==
    last.op \in FacadeOps =>
        \A i \in 1..Len(calls) :
            calls[i].exc # NoExc => last.outcome = "raise" /\ last.exc = calls[i].exc

C3_Witness ==
    /\ last.op = "exists"
    /\ Len(calls) = 1
    /\ calls[1].exc = Exc("TransportError", "c2")
    /\ last.outcome = "raise"

\* C4: every failure a driver raises in service of a facade operation has
\* been logged by the facade, with the operation's name and the cause, when
\* it reaches the caller - whether it was raised in the call or while the
\* caller iterates the chunk sequence a streaming load returned.
C4_EveryDriverFailureLogged ==
    last.outcome = "raise" /\ last.exc.kind \in DriverKinds =>
        \E i \in 1..Len(logs) :
            /\ logs[i].exc = last.exc
            /\ logs[i].op = IF last.op = "next" THEN "load_stream" ELSE last.op

\* C5: no facade operation constructs a driver or changes storage_runner,
\* and once initialized every operation is forwarded, with its key, to the
\* retained driver instance.
C5_OperationsKeepDriver ==
    [][ last'.op \in FacadeOps =>
          /\ storage_runner' = storage_runner
          /\ nConstructed' = nConstructed
          /\ (storage_runner # None =>
                /\ Len(calls') = 1
                /\ calls'[1].drv = storage_runner.id
                /\ calls'[1].key = last'.key) ]_vars

C5_Witness ==
    /\ last.op = "download"
    /\ last.outcome = "return"
    /\ nConstructed = 1
    /\ storage_runner.id = 1
    /\ Len(calls) = 1
    /\ calls[1].drv = 1

\* C6: load(key, stream) invokes exactly one driver method, load_stream when
\* stream is true and load_once otherwise, and what its caller gets is what
\* a direct call of the facade's load_stream, respectively load_once, gives
\* for that driver response.
C6_LoadRoutes ==
    last.op = "load" =>
        /\ Initialized =>
              /\ Len(calls) = 1
              /\ calls[1].op = (IF last.stream THEN "load_stream" ELSE "load_once")
              /\ calls[1].key = last.key
        /\ \E r \in (IF last.stream THEN load_stream(storage_runner, world, last.key)
                                    ELSE load_once(storage_runner, world, last.key)) :
              /\ r.calls = calls
              /\ r.outcome = last.outcome
              /\ r.value = last.value
              /\ r.exc = last.exc

C6_Witness ==
    /\ last.op = "load"
    /\ last.stream
    /\ last.outcome = "return"
    /\ last.value = GenV
    /\ calls[1].op = "load_stream"

\* C7: exists(k) returns true iff the last save/delete of k through the
\* facade was a save, in any run where every save and delete of k that
\* reached the driver returned normally (false for a key never saved).
C7_ExistsTracksSaveDelete ==
    last.op = "exists" /\ last.outcome = "return" /\ hist[last.key].op # "unknown" =>
        last.value = BoolV(hist[last.key].op = "save")

C7_Witness ==
    /\ last.op = "exists"
    /\ last.outcome = "return"
    /\ hist[last.key].op = "save"
    /\ last.value = BoolV(TRUE)
    /\ nConstructed = 1

\* C8: after a successful save(k, bytes) with no later save or delete of k,
\* load_once(k) returns bytes (or fails in transport, never NotFound) and the
\* chunks load_stream(k) yields, joined in order, are bytes; the last
\* successful save decides (overwrite).
C8_RoundTrip ==
    /\ last.op \in {"load_once", "load"} /\ ~last.stream /\ Initialized
         /\ hist[last.key].op = "save" =>
          \/ last.outcome = "return" /\ last.value = BytesV(hist[last.key].data)
          \/ last.outcome = "raise" /\ last.exc.kind = "TransportError"
    /\ gen.clean /\ gen.status \in {"open", "done"} /\ hist[gen.key].op = "save" =>
          /\ IsPrefix(Concat(gen.chunks), hist[gen.key].data)
          /\ gen.status = "done" => Concat(gen.chunks) = hist[gen.key].data

C8_Witness ==
    /\ gen.status = "done"
    /\ gen.clean
    /\ hist[gen.key].op = "save"
    /\ Len(gen.chunks) = 2
    /\ last.op = "next"

\* C9 as stated: for a key never saved, load(k, stream=true) and
\* load(k, stream=false) both raise NotFound (or the transport failure the
\* driver suffered) to the caller of load.
C9_LoadRaisesInCall ==
    last.op = "load" /\ Initialized /\ hist[last.key].op = "none" =>
        /\ last.outcome = "raise"
        /\ last.exc.kind \in {"NotFound", "TransportError"}

\* C9 amended: for a key never saved, load(k, stream=false) raises NotFound
\* in the call; load(k, stream=true) raises NotFound in the call or returns
\* the chunk sequence, whose first iteration then raises NotFound before any
\* chunk is yielded.  A transport failure the driver raises in the call is
\* raised by load unchanged; one raised during iteration reaches the caller
\* from the iteration.
C9_LoadRaisesInCallOrOnIteration ==
    /\ last.op = "load" /\ Initialized /\ hist[last.key].op = "none" =>
          \/ /\ last.outcome = "raise"
             /\ last.exc = calls[1].exc
             /\ last.exc \in {NotFound} \cup {Exc("TransportError", c) : c \in Causes}
          \/ /\ last.stream
             /\ last.outcome = "return"
             /\ last.value = GenV
             /\ gen = NewGen(last.key)
    /\ last.op = "load" /\ Initialized /\ calls[1].exc.kind = "TransportError" =>
          last.outcome = "raise" /\ last.exc = calls[1].exc
    /\ last.op = "next" /\ hist[last.key].op = "none" =>
          /\ last.outcome = "raise"
          /\ last.exc \in {NotFound} \cup {Exc("TransportError", c) : c \in Causes}
          /\ gen.chunks = <<>>

C9_Witness ==
    /\ last.op = "next"
    /\ hist[last.key].op = "none"
    /\ last.outcome = "raise"
    /\ last.exc = NotFound
    /\ gen.status = "raised"

\* C10: a facade operation called while storage_runner is None raises, calls
\* no driver method, changes nothing in the medium and leaves the facade
\* uninitialized; an operation called after init_app completed never
\* observes a missing driver.
C10_UninitializedNeverSucceeds ==
    [][ last'.op \in FacadeOps =>
          IF storage_runner = None
          THEN /\ last'.outcome = "raise"
               /\ calls' = <<>>
               /\ storage_runner' = None
               /\ world' = world
          ELSE /\ last'.exc # AttributeError
               /\ calls' # <<>> ]_vars

C10_Witness ==
    /\ storage_runner = None
    /\ last.op = "delete"
    /\ last.outcome = "raise"
    /\ last.exc = AttributeError
    /\ calls = <<>>

====
